---- MODULE Spec2Model ----
(***************************************************************************)
(* The appointment-booking API of src/main.py as a state machine.          *)
(*                                                                         *)
(* The state is the SQLite store (tables users and appointments), the      *)
(* wall clock, the bearer tokens that clients hold, whether the service    *)
(* process is up, and the last request together with its response.  Every  *)
(* HTTP handler is one action: a request is handled by one session that    *)
(* either commits or is closed without a commit (get_db), so a handler     *)
(* that raises leaves the store as it found it.                            *)
(*                                                                         *)
(* Text that the code inspects character by character (names, dates,       *)
(* times) is a sequence of one-character strings; text that the code only  *)
(* compares for equality (emails, passwords, roles, statuses) is a string. *)
(* Time is counted in whole minutes, the unit of                           *)
(* ACCESS_TOKEN_EXPIRE_MINUTES.                                            *)
(***************************************************************************)
EXTENDS Integers, Sequences, FiniteSets, TLC

VARIABLES running, users, appts, now, tokens, last

vars == <<running, users, appts, now, tokens, last>>

(***************************************************************************)
(* Config (src/main.py 13-15)                                              *)
(***************************************************************************)
SECRET_KEY == "supersecretkey"

ACCESS_TOKEN_EXPIRE_MINUTES == 60

(***************************************************************************)
(* Bounds of the model                                                     *)
(***************************************************************************)
\* rows of table appointments
MaxAppts == 1

\* tokens that clients hold at once
MaxTokens == 1

\* steps of the clock in one behaviour
MaxTicks == 2

(***************************************************************************)
(* Text                                                                    *)
(***************************************************************************)
DigitChars == <<"0", "1", "2", "3", "4", "5", "6", "7", "8", "9">>

IsDigit(c) == \E i \in 1..10 : DigitChars[i] = c

DigitVal(c) == (CHOOSE i \in 1..10 : DigitChars[i] = c) - 1

AllDigits(s) == \A i \in 1..Len(s) : IsDigit(s[i])

\* int() of a string of digits
RECURSIVE NumVal(_)
NumVal(s) ==
    IF s = <<>> THEN 0
    ELSE 10 * NumVal(SubSeq(s, 1, Len(s) - 1)) + DigitVal(s[Len(s)])

\* the "%02d" of strftime and isoformat
TwoDigits(n) == <<DigitChars[(n \div 10) + 1], DigitChars[(n % 10) + 1]>>

\* the "%04d" of isoformat
FourDigits(n) ==
    <<DigitChars[(n \div 1000) + 1], DigitChars[((n \div 100) % 10) + 1],
      DigitChars[((n \div 10) % 10) + 1], DigitChars[(n % 10) + 1]>>

\* str.lower() on the letters that occur in the names of the model
LowerChar(c) ==
    CASE c = "A" -> "a"
      [] c = "J" -> "j"
      [] c = "R" -> "r"
      [] c = "S" -> "s"
      [] c = "U" -> "u"
      [] OTHER -> c

Lower(s) == [i \in 1..Len(s) |-> LowerChar(s[i])]

\* str.strip(): drops the leading and the trailing blanks
Strip(s) ==
    LET inked == {i \in 1..Len(s) : s[i] # " "}
    IN  IF inked = {} THEN <<>>
        ELSE LET lo == CHOOSE i \in inked : \A j \in inked : i <= j
                 hi == CHOOSE i \in inked : \A j \in inked : j <= i
             IN  SubSeq(s, lo, hi)

\* the positions of the separator c in s
SepAt(s, c) == {i \in 1..Len(s) : s[i] = c}

\* s.split(c), as a sequence of the fields between the separators
RECURSIVE Split(_, _)
Split(s, c) ==
    IF SepAt(s, c) = {} THEN <<s>>
    ELSE LET k == CHOOSE i \in SepAt(s, c) : \A j \in SepAt(s, c) : i <= j
         IN  <<SubSeq(s, 1, k - 1)>> \o Split(SubSeq(s, k + 1, Len(s)), c)

(***************************************************************************)
(* datetime.strptime, as the handlers use it.  A parse that raises         *)
(* ValueError is the empty tuple.                                          *)
(***************************************************************************)
ValueError == <<>>

\* a field of one or two digits whose value lies in lo..hi: the directives
\* %m, %d, %H, %M and %S take the digit without its leading zero too
Field(s, lo, hi) ==
    /\ Len(s) \in {1, 2}
    /\ AllDigits(s)
    /\ NumVal(s) >= lo
    /\ NumVal(s) <= hi

\* %d also takes a blank followed by one digit
DayField(s) ==
    \/ Field(s, 1, 31)
    \/ /\ Len(s) = 2
       /\ s[1] = " "
       /\ IsDigit(s[2])
       /\ DigitVal(s[2]) >= 1

DayVal(s) == IF s[1] = " " THEN DigitVal(s[2]) ELSE NumVal(s)

IsLeap(y) == (y % 4 = 0 /\ y % 100 # 0) \/ y % 400 = 0

DaysIn(y, m) ==
    IF m = 2 THEN (IF IsLeap(y) THEN 29 ELSE 28)
    ELSE IF m \in {4, 6, 9, 11} THEN 30 ELSE 31

\* datetime.strptime(s, "%Y-%m-%d").date(): <<year, month, day>>
StrptimeDate(s) ==
    LET f == Split(s, "-")
    IN  IF /\ Len(f) = 3
           /\ Len(f[1]) = 4
           /\ AllDigits(f[1])
           /\ NumVal(f[1]) >= 1
           /\ Field(f[2], 1, 12)
           /\ DayField(f[3])
           /\ DayVal(f[3]) <= DaysIn(NumVal(f[1]), NumVal(f[2]))
        THEN <<NumVal(f[1]), NumVal(f[2]), DayVal(f[3])>>
        ELSE ValueError

\* datetime.strptime(s, "%H:%M:%S").time(): <<hour, minute, second>>
StrptimeHMS(s) ==
    LET f == Split(s, ":")
    IN  IF /\ Len(f) = 3
           /\ Field(f[1], 0, 23)
           /\ Field(f[2], 0, 59)
           /\ Field(f[3], 0, 59)
        THEN <<NumVal(f[1]), NumVal(f[2]), NumVal(f[3])>>
        ELSE ValueError

\* datetime.strptime(s, "%H:%M").time()
StrptimeHM(s) ==
    LET f == Split(s, ":")
    IN  IF /\ Len(f) = 2
           /\ Field(f[1], 0, 23)
           /\ Field(f[2], 0, 59)
        THEN <<NumVal(f[1]), NumVal(f[2]), 0>>
        ELSE ValueError

\* update_appointment's two attempts: with seconds first, then without
ParseTime(s) ==
    IF StrptimeHMS(s) # ValueError THEN StrptimeHMS(s) ELSE StrptimeHM(s)

\* date.isoformat()
IsoFormat(d) ==
    FourDigits(d[1]) \o <<"-">> \o TwoDigits(d[2]) \o <<"-">> \o TwoDigits(d[3])

\* time.strftime("%H:%M:%S")
StrftimeHMS(t) ==
    TwoDigits(t[1]) \o <<":">> \o TwoDigits(t[2]) \o <<":">> \o TwoDigits(t[3])

(***************************************************************************)
(* Values                                                                  *)
(***************************************************************************)
\* Python's None, for an Optional column or field
None == <<>>

\* the names, emails, passwords and roles that requests carry
NameSuraj == <<"S", "u", "r", "a", "j">>

NamePadded == <<" ", "s", "U", "R", "A", "J", " ">>

NameAlice == <<"a", "l", "i", "c", "e">>

Names == {NamePadded, NameAlice}

Emails == {"suraj@example.com", "a@gmail.com"}

Passwords == {"password123", "pw"}

Roles == {"patient", "doctor", "admin"}

(***************************************************************************)
(* Auth helpers (src/main.py 52-89)                                        *)
(***************************************************************************)
\* pwd_context.hash: one-way, so only verify_password reads it
get_password_hash(password) == <<"bcrypt", password>>

verify_password(plain, hashed) == hashed = <<"bcrypt", plain>>

\* jwt.encode of the payload {sub, role, exp} under a key
JwtEncode(sub, role, exp, key) ==
    [sub |-> sub, role |-> role, exp |-> exp, key |-> key]

\* create_access_token at time t, with the default lifetime
create_access_token(sub, role, t) ==
    JwtEncode(sub, role, t + ACCESS_TOKEN_EXPIRE_MINUTES, SECRET_KEY)

\* jwt.decode raises ExpiredSignatureError once the clock has passed exp
Expired(token, t) == token.exp < t

\* jwt.decode raises JWTError: a signature under another key, or expired
JWTError(token, t) == token.key # SECRET_KEY \/ Expired(token, t)

\* the ids of table users: rows are never deleted, so ids are 1..Len
UserIds(us) == 1..Len(us)

\* db.query(User).filter(User.email == email).first(): the id, or 0 for None
UserByEmail(us, email) ==
    IF \E i \in UserIds(us) : us[i].email = email
    THEN CHOOSE i \in UserIds(us) : us[i].email = email
    ELSE 0

\* get_current_user on the Authorization header `auth` (<<>> when the
\* request has none, else <<token>>): the caller's id, or 0 when it raises
\* the 401
get_current_user(us, auth, t) ==
    IF auth = <<>> THEN 0
    ELSE IF JWTError(auth[1], t) THEN 0
    ELSE UserByEmail(us, auth[1].sub)

(***************************************************************************)
(* Tables (src/main.py 25-46).  A table is the sequence of its rows in id  *)
(* order: ids are assigned 1, 2, ... and no handler deletes a row.         *)
(***************************************************************************)
User(name, email, password, role, specialty, fees) ==
    [name |-> name, email |-> email, password |-> password, role |-> role,
     specialty |-> specialty, fees |-> fees]

Appointment(patient_id, doctor_id, date, status) ==
    [date |-> date, time |-> None, status |-> status,
     patient_id |-> patient_id, doctor_id |-> doctor_id]

\* relationship("User", foreign_keys=...): the row the id names, if any.
\* SQLite does not enforce the ForeignKey, so the id may name no row.
Resolves(us, id) == id \in UserIds(us)

(***************************************************************************)
(* signup (src/main.py 127-151)                                            *)
(***************************************************************************)
\* a slip: the handler skips the query for the email
EmailRegistered_Skipped(us, email) == FALSE

EmailRegistered(us, email) == UserByEmail(us, email) # 0

\* a slip: the query filters on a role that no row has
DoctorExists_WrongRole(us) == \E i \in UserIds(us) : us[i].role = "Doctor"

DoctorExists(us) == \E i \in UserIds(us) : us[i].role = "doctor"

\* a slip: the name is trimmed but not lowered
NameAllowed_CaseSensitive(name) == Strip(name) = <<"s", "u", "r", "a", "j">>

\* user.name.strip().lower() == "suraj"
NameAllowed(name) == Lower(Strip(name)) = <<"s", "u", "r", "a", "j">>

\* the handler on the table `us` and the body `user`: the response and the
\* table it leaves
signup(us, user) ==
    IF EmailRegistered(us, user.email)
    THEN [code |-> 400, detail |-> "Email already registered", users |-> us]
    ELSE IF user.role = "doctor" /\ DoctorExists(us)
    THEN [code |-> 400, detail |-> "Only one doctor allowed", users |-> us]
    ELSE IF user.role = "doctor" /\ ~NameAllowed(user.name)
    THEN [code |-> 400, detail |-> "Only doctor named 'Suraj' is allowed",
          users |-> us]
    ELSE [code |-> 200, detail |-> "User created successfully",
          users |-> Append(us, User(user.name, user.email,
                                    get_password_hash(user.password),
                                    user.role, user.specialty, user.fees))]

(***************************************************************************)
(* init_doctor_suraj (src/main.py 258-274), run by every start of the      *)
(* service                                                                 *)
(***************************************************************************)
SurajExists(us) ==
    \E i \in UserIds(us) : us[i].role = "doctor" /\ us[i].name = NameSuraj

\* ok is FALSE when the commit violates the unique index on email: the
\* IntegrityError ends the import of the module, and the service is down
init_doctor_suraj(us) ==
    IF SurajExists(us) THEN [ok |-> TRUE, users |-> us]
    ELSE IF EmailRegistered(us, "suraj@example.com")
    THEN [ok |-> FALSE, users |-> us]
    ELSE [ok |-> TRUE,
          users |-> Append(us, User(NameSuraj, "suraj@example.com",
                                    get_password_hash("password123"),
                                    "doctor", <<"General Physician">>,
                                    <<500>>))]

(***************************************************************************)
(* login (src/main.py 153-159)                                             *)
(***************************************************************************)
login(us, user, t) ==
    LET id == UserByEmail(us, user.email)
    IN  IF id = 0 \/ ~verify_password(user.password, us[id].password)
        THEN [code |-> 401, detail |-> "Invalid credentials", body |-> <<>>]
        ELSE [code |-> 200, detail |-> "",
              body |-> <<[access_token |->
                              create_access_token(us[id].email, us[id].role, t),
                          token_type |-> "bearer",
                          role |-> us[id].role,
                          id |-> id]>>]

(***************************************************************************)
(* get_doctors (src/main.py 161-164): the route has no get_current_user    *)
(* dependency, so the Authorization header is never read                   *)
(***************************************************************************)
RECURSIVE RowsWhere(_, _)
\* the rows of a query, in id order: `row` maps the ids that the query
\* selects, none above n, to their rows
RowsWhere(row, n) ==
    IF n = 0 THEN <<>>
    ELSE RowsWhere(row, n - 1)
             \o (IF n \in DOMAIN row THEN <<row[n]>> ELSE <<>>)

get_doctors(us) ==
    LET row == [i \in {j \in UserIds(us) : us[j].role = "doctor"} |->
                    [id |-> i] @@ us[i]]
    IN  [code |-> 200, detail |-> "", body |-> RowsWhere(row, Len(us))]

(***************************************************************************)
(* The protected routes.  Each takes the tables, the time and the          *)
(* Authorization header, runs get_current_user first, and answers with     *)
(* the caller it found (0: none), the response and the table appointments  *)
(* as the request leaves it.                                               *)
(***************************************************************************)
\* the HTTPException(401) of get_current_user and of oauth2_scheme
credentials_exception(ap, auth) ==
    [caller |-> 0, code |-> 401,
     detail |-> IF auth = <<>> THEN "Not authenticated"
                ELSE "Could not validate credentials",
     body |-> <<>>, appts |-> ap]

\* an answer of a handler that ran for `caller`
Answer(caller, code, detail, body, ap) ==
    [caller |-> caller, code |-> code, detail |-> detail, body |-> body,
     appts |-> ap]

(***************************************************************************)
(* book_appointment (src/main.py 166-189)                                  *)
(***************************************************************************)
book_appointment(us, ap, t, auth, data) ==
    LET current_user == get_current_user(us, auth, t)
    IN  IF current_user = 0 THEN credentials_exception(ap, auth)
        ELSE IF us[current_user].role # "patient"
        THEN Answer(current_user, 403, "Only patients can book appointments",
                    <<>>, ap)
        ELSE IF StrptimeDate(data.date) = ValueError
        THEN Answer(current_user, 400, "Invalid date format. Use YYYY-MM-DD.",
                    <<>>, ap)
        ELSE Answer(current_user, 200, "Appointment booked!", <<>>,
                    Append(ap, Appointment(current_user, data.doctor_id,
                                           StrptimeDate(data.date),
                                           "pending")))

(***************************************************************************)
(* get_appointments (src/main.py 191-219)                                  *)
(***************************************************************************)
\* appt.time.strftime("%H:%M:%S") if appt.time else None
TimeOut(a) == IF a.time # None THEN StrftimeHMS(a.time) ELSE None

\* the appointments the caller's role selects
Mine(us, ap, current_user) ==
    IF us[current_user].role = "patient"
    THEN {i \in 1..Len(ap) : ap[i].patient_id = current_user}
    ELSE IF us[current_user].role = "doctor"
    THEN {i \in 1..Len(ap) : ap[i].doctor_id = current_user}
    ELSE {}

\* appt.doctor.name raises AttributeError when doctor_id names no row:
\* the request ends in the server's 500
get_appointments(us, ap, t, auth) ==
    LET current_user == get_current_user(us, auth, t)
        PatientRow ==
            [i \in Mine(us, ap, current_user) |->
                [id |-> i, doctor_id |-> ap[i].doctor_id,
                 doctor_name |-> us[ap[i].doctor_id].name,
                 date |-> IsoFormat(ap[i].date), status |-> ap[i].status,
                 time |-> TimeOut(ap[i])]]
        DoctorRow ==
            [i \in Mine(us, ap, current_user) |->
                [id |-> i, patient_id |-> ap[i].patient_id,
                 patient_name |-> us[ap[i].patient_id].name,
                 date |-> IsoFormat(ap[i].date), status |-> ap[i].status,
                 time |-> TimeOut(ap[i])]]
    IN  IF current_user = 0 THEN credentials_exception(ap, auth)
        ELSE IF us[current_user].role = "patient"
        THEN IF \E i \in Mine(us, ap, current_user) :
                    ~Resolves(us, ap[i].doctor_id)
             THEN Answer(current_user, 500, "Internal Server Error", <<>>, ap)
             ELSE Answer(current_user, 200, "",
                         RowsWhere(PatientRow, Len(ap)), ap)
        ELSE IF \E i \in Mine(us, ap, current_user) :
                   ~Resolves(us, ap[i].patient_id)
        THEN Answer(current_user, 500, "Internal Server Error", <<>>, ap)
        ELSE Answer(current_user, 200, "", RowsWhere(DoctorRow, Len(ap)), ap)

(***************************************************************************)
(* update_appointment (src/main.py 221-254).  The handler assigns to the   *)
(* loaded row and commits at its end; when it raises, get_db closes the    *)
(* session and the assignments are dropped.  A time of None and the empty  *)
(* string are both the empty sequence: the handler tests the field's       *)
(* truth only.                                                             *)
(***************************************************************************)
\* a slip: the query filters on the id alone
OwnedBy_AnyDoctor(ap, appointment_id, current_user) ==
    appointment_id \in 1..Len(ap)

\* the query's filter: the id, and the caller as its doctor
OwnedBy(ap, appointment_id, current_user) ==
    /\ appointment_id \in 1..Len(ap)
    /\ ap[appointment_id].doctor_id = current_user

\* a slip: the assignments made before the handler raises are flushed and
\* committed
RolledBack_Committed(ap, appointment_id, staged) ==
    [ap EXCEPT ![appointment_id] = staged]

\* what the session holds when the handler raises the 400: the row as it
\* was loaded, the assignment of line 239 not being committed
RolledBack(ap, appointment_id, staged) == ap

update_appointment(us, ap, t, auth, appointment_id, appointment_update) ==
    LET current_user == get_current_user(us, auth, t)
        staged == [ap[appointment_id] EXCEPT
                       !.status = appointment_update.status]
    IN  IF current_user = 0 THEN credentials_exception(ap, auth)
        ELSE IF us[current_user].role # "doctor"
        THEN Answer(current_user, 403, "Only doctors can update status",
                    <<>>, ap)
        ELSE IF ~OwnedBy(ap, appointment_id, current_user)
        THEN Answer(current_user, 404, "Appointment not found", <<>>, ap)
        ELSE IF appointment_update.time = None
        THEN Answer(current_user, 200, "Appointment updated", <<>>,
                    [ap EXCEPT ![appointment_id] = staged])
        ELSE IF ParseTime(appointment_update.time) = ValueError
        THEN Answer(current_user, 400,
                    "Invalid time format. Use HH:MM or HH:MM:SS", <<>>,
                    RolledBack(ap, appointment_id, staged))
        ELSE Answer(current_user, 200, "Appointment updated", <<>>,
                    [ap EXCEPT ![appointment_id] =
                        [staged EXCEPT
                             !.time = ParseTime(appointment_update.time)]])

(***************************************************************************)
(* Requests                                                                *)
(***************************************************************************)
\* "2024-03-15", "2024-3-15", "15-03-2024", "2024-02-30"
DatePadded == <<"2", "0", "2", "4", "-", "0", "3", "-", "1", "5">>

DateUnpadded == <<"2", "0", "2", "4", "-", "3", "-", "1", "5">>

DateDayFirst == <<"1", "5", "-", "0", "3", "-", "2", "0", "2", "4">>

DateFeb30 == <<"2", "0", "2", "4", "-", "0", "2", "-", "3", "0">>

Dates == {DatePadded, DateUnpadded, DateDayFirst, DateFeb30}

\* "14:30", "14:30:00", "25:00", "14:30:0"
TimeHM == <<"1", "4", ":", "3", "0">>

TimeHMS == <<"1", "4", ":", "3", "0", ":", "0", "0">>

TimeBad == <<"2", "5", ":", "0", "0">>

TimeUnpadded == <<"1", "4", ":", "3", "0", ":", "0">>

Times == {None, TimeHM, TimeHMS, TimeBad, TimeUnpadded}

Statuses == {"pending", "accepted", "cancelled"}

\* the doctor_id of a booking: the bootstrap doctor's id, and an id that no
\* account has
DoctorIds == {1, 9}

\* a token that was not signed with SECRET_KEY
ForgedToken ==
    JwtEncode("suraj@example.com", "doctor", 100000, "not the key")

\* the Authorization headers a client can send: none, a forged token, or a
\* token that login has issued
Auths == {<<>>, <<ForgedToken>>} \cup {<<h.token>> : h \in tokens}

UserCreate ==
    [name : Names, email : Emails, password : {"pw"}, role : Roles,
     specialty : {None}, fees : {None}]

UserLogin == [email : Emails, password : Passwords]

AppointmentCreate == [doctor_id : DoctorIds, date : Dates]

\* every status without a time and with a malformed one, and one status with
\* each well-formed time
AppointmentUpdate ==
    [status : Statuses, time : {None, TimeBad}]
        \cup [status : {"accepted"}, time : Times]

\* the ids a PUT /appointments/{id} names: those in use and the next one
AppointmentIds == 1..(Len(appts) + 1)

\* the last event: the route, the Authorization header sent, the id in the
\* path (0: none), the name in the body of a signup (None: another route),
\* the caller get_current_user found (0: none) and the response
Event(op, auth, path, caller, code, detail, body) ==
    [op |-> op, auth |-> auth, path |-> path, name |-> None,
     caller |-> caller, code |-> code, detail |-> detail, body |-> body]

\* an event of the process or of a client, which no route answers
Quiet(op) == Event(op, <<>>, 0, 0, 0, "", <<>>)

(***************************************************************************)
(* The state machine                                                       *)
(***************************************************************************)
Init ==
    /\ running = FALSE
    /\ users = <<>>
    /\ appts = <<>>
    /\ now = 0
    /\ tokens = {}
    /\ last = Quiet("none")

\* the service process starts (or restarts): the module is imported, which
\* creates the missing tables and runs init_doctor_suraj
Start ==
    LET r == init_doctor_suraj(users)
    IN  /\ users' = r.users
        /\ running' = r.ok
        /\ last' = Quiet("start")
        /\ UNCHANGED <<appts, now, tokens>>

\* the number of clock steps that lead to the time n
Ticks(n) ==
    (n \div ACCESS_TOKEN_EXPIRE_MINUTES) + (n % ACCESS_TOKEN_EXPIRE_MINUTES)

\* the clock advances by d minutes
Tick(d) ==
    /\ Ticks(now) < MaxTicks
    /\ now' = now + d
    /\ last' = Quiet("tick")
    /\ UNCHANGED <<running, users, appts, tokens>>

Signup(user) ==
    LET r == signup(users, user)
    IN  /\ running
        /\ users' = r.users
        /\ last' = [Event("signup", <<>>, 0, 0, r.code, r.detail, <<>>)
                        EXCEPT !.name = user.name]
        /\ UNCHANGED <<running, appts, now, tokens>>

\* the client keeps the token of a successful login, with the time it got it
Login(user) ==
    LET r == login(users, user, now)
        held == IF r.code = 200
                THEN tokens \cup {[token |-> r.body[1].access_token,
                                   issued |-> now]}
                ELSE tokens
    IN  /\ running
        /\ Cardinality(held) <= MaxTokens
        /\ tokens' = held
        /\ last' = Event("login", <<>>, 0, 0, r.code, r.detail, r.body)
        /\ UNCHANGED <<running, users, appts, now>>

\* the client's Logout button (src/Frontend/app.py 77-82) forgets a token
Logout(h) ==
    /\ tokens' = tokens \ {h}
    /\ last' = Quiet("logout")
    /\ UNCHANGED <<running, users, appts, now>>

GetDoctors(auth) ==
    LET r == get_doctors(users)
    IN  /\ running
        /\ last' = Event("doctors", auth, 0, 0, r.code, r.detail, r.body)
        /\ UNCHANGED <<running, users, appts, now, tokens>>

BookAppointment(auth, data) ==
    LET r == book_appointment(users, appts, now, auth, data)
    IN  /\ running
        /\ Len(r.appts) <= MaxAppts
        /\ appts' = r.appts
        /\ last' = Event("book", auth, 0, r.caller, r.code, r.detail, r.body)
        /\ UNCHANGED <<running, users, now, tokens>>

GetAppointments(auth) ==
    LET r == get_appointments(users, appts, now, auth)
    IN  /\ running
        /\ last' = Event("list", auth, 0, r.caller, r.code, r.detail, r.body)
        /\ UNCHANGED <<running, users, appts, now, tokens>>

UpdateAppointment(auth, appointment_id, appointment_update) ==
    LET r == update_appointment(users, appts, now, auth, appointment_id,
                                appointment_update)
    IN  /\ running
        /\ appts' = r.appts
        /\ last' = Event("update", auth, appointment_id, r.caller, r.code,
                         r.detail, r.body)
        /\ UNCHANGED <<running, users, now, tokens>>

\* the requests at one instant: every route with every input of the model
Next ==
    \/ Start
    \/ \E user \in UserCreate : Signup(user)
    \/ \E user \in UserLogin : Login(user)
    \/ \E h \in tokens : Logout(h)
    \/ \E auth \in Auths : GetDoctors(auth)
    \/ \E auth \in Auths : \E data \in AppointmentCreate :
           BookAppointment(auth, data)
    \/ \E auth \in Auths : GetAppointments(auth)
    \/ \E auth \in Auths : \E id \in AppointmentIds :
           \E upd \in AppointmentUpdate : UpdateAppointment(auth, id, upd)

Spec == Init /\ [][Next]_vars

\* one request of each kind
UserCreateOne ==
    [name |-> NameAlice, email |-> "a@gmail.com", password |-> "pw",
     role |-> "patient", specialty |-> None, fees |-> None]

UserLoginOne ==
    {[email |-> "a@gmail.com", password |-> "pw"],
     [email |-> "suraj@example.com", password |-> "password123"],
     [email |-> "suraj@example.com", password |-> "pw"]}

AppointmentCreateOne == [doctor_id |-> 1, date |-> DatePadded]

AppointmentUpdateOne == [status |-> "accepted", time |-> TimeHM]

\* the routes while the clock runs
NextClock ==
    \/ Start
    \/ \E d \in {1, ACCESS_TOKEN_EXPIRE_MINUTES} : Tick(d)
    \/ Signup(UserCreateOne)
    \/ \E user \in UserLoginOne : Login(user)
    \/ \E h \in tokens : Logout(h)
    \/ \E auth \in Auths : GetDoctors(auth)
    \/ \E auth \in Auths : BookAppointment(auth, AppointmentCreateOne)
    \/ \E auth \in Auths : GetAppointments(auth)
    \/ \E auth \in Auths : UpdateAppointment(auth, 1, AppointmentUpdateOne)

SpecClock == Init /\ [][NextClock]_vars

(***************************************************************************)
(* Properties                                                              *)
(***************************************************************************)
\* the ids of the stored accounts with role 'doctor'
DoctorIdsOf(us) == {i \in UserIds(us) : us[i].role = "doctor"}

\* C1: from the empty store, through any starts of the service and any
\* signups, at most one stored account has role 'doctor'; a restart never
\* adds a second doctor.
C1_AtMostOneDoctor == Cardinality(DoctorIdsOf(users)) <= 1

\* the service has restarted after an account signed up, and the doctor is
\* still the only one
C1_Restarted ==
    /\ last.op = "start"
    /\ Len(users) >= 2
    /\ Cardinality(DoctorIdsOf(users)) = 1

\* the routes of the authorization matrix that require a token
ProtectedOps == {"doctors", "book", "list", "update"}

\* a header that carries no token, a token signed with another key, or a
\* token whose expiry lies before the time t
BadToken(auth, t) ==
    \/ auth = <<>>
    \/ auth[1].key # SECRET_KEY
    \/ auth[1].exp < t

\* C2: each of the four protected routes (list doctors, book, list my
\* appointments, update), called with a missing, invalid or expired token,
\* answers 401, returns no data and leaves the store unchanged.
C2_BadTokenRejected ==
    [][(last'.op \in ProtectedOps /\ BadToken(last'.auth, now))
           => /\ last'.code = 401
              /\ last'.body = <<>>
              /\ users' = users
              /\ appts' = appts]_vars

\* C3: every stored appointment's patient_id is the id of an account with
\* role 'patient' and its doctor_id the id of an account with role 'doctor'.
C3_ReferencesResolve ==
    \A i \in 1..Len(appts) :
        /\ appts[i].patient_id \in UserIds(users)
        /\ users[appts[i].patient_id].role = "patient"
        /\ appts[i].doctor_id \in UserIds(users)
        /\ users[appts[i].doctor_id].role = "doctor"

\* C4: every stored appointment's status is one of 'pending', 'accepted',
\* 'rejected'.
C4_StatusInSet ==
    \A i \in 1..Len(appts) :
        appts[i].status \in {"pending", "accepted", "rejected"}

\* the answers' codes of the four protected routes to a request that
\* carries `auth`, whatever else the request carries
CodesFor(auth) ==
    {get_doctors(users).code}
        \cup {get_appointments(users, appts, now, auth).code}
        \cup {book_appointment(users, appts, now, auth, data).code :
                  data \in AppointmentCreate}
        \cup {update_appointment(users, appts, now, auth, id, upd).code :
                  id \in AppointmentIds, upd \in AppointmentUpdate}

\* the same of the three routes that depend on get_current_user
GuardedCodesFor(auth) ==
    {get_appointments(users, appts, now, auth).code}
        \cup {book_appointment(users, appts, now, auth, data).code :
                  data \in AppointmentCreate}
        \cup {update_appointment(users, appts, now, auth, id, upd).code :
                  id \in AppointmentIds, upd \in AppointmentUpdate}

\* C5: a token that login issued at time T is accepted by every protected
\* call made strictly before T + 60 minutes and answered 401 by every
\* protected call made after T + 60 minutes; no operation (a later login, a
\* restart) revokes it earlier.
C5_TokenLifetime ==
    \A h \in tokens :
        /\ now < h.issued + ACCESS_TOKEN_EXPIRE_MINUTES
               => 401 \notin CodesFor(<<h.token>>)
        /\ now > h.issued + ACCESS_TOKEN_EXPIRE_MINUTES
               => CodesFor(<<h.token>>) = {401}

\* C5 for the three routes that depend on get_current_user: there the
\* lifetime is as the claim says
C5_GuardedLifetime ==
    \A h \in tokens :
        /\ now < h.issued + ACCESS_TOKEN_EXPIRE_MINUTES
               => 401 \notin GuardedCodesFor(<<h.token>>)
        /\ now > h.issued + ACCESS_TOKEN_EXPIRE_MINUTES
               => GuardedCodesFor(<<h.token>>) = {401}

\* a held token is presented after its lifetime and answered 401
C5_RejectedAfter ==
    \E h \in tokens :
        /\ now > h.issued + ACCESS_TOKEN_EXPIRE_MINUTES
        /\ last.auth = <<h.token>>
        /\ last.code = 401

\* C6: the status and the time of a stored appointment change only by an
\* update of the doctor account whose id is the appointment's doctor_id; an
\* update by a doctor for an id that does not exist or that another
\* doctor_id owns answers 404, an update by a non-doctor answers 403, both
\* leaving every appointment unchanged; no step deletes an appointment or
\* changes its date, patient_id or doctor_id.
C6_Step ==
    /\ Len(appts') >= Len(appts)
    /\ \A i \in 1..Len(appts) :
           /\ appts'[i].date = appts[i].date
           /\ appts'[i].patient_id = appts[i].patient_id
           /\ appts'[i].doctor_id = appts[i].doctor_id
           /\ (appts'[i].status # appts[i].status
                   \/ appts'[i].time # appts[i].time)
                  => /\ last'.op = "update"
                     /\ last'.code = 200
                     /\ last'.path = i
                     /\ last'.caller = appts[i].doctor_id
                     /\ last'.caller \in UserIds(users)
                     /\ users[last'.caller].role = "doctor"
    /\ (last'.op = "update" /\ last'.caller # 0)
           => IF users[last'.caller].role # "doctor"
              THEN last'.code = 403 /\ appts' = appts
              ELSE (\/ last'.path \notin 1..Len(appts)
                    \/ appts[last'.path].doctor_id # last'.caller)
                       => last'.code = 404 /\ appts' = appts

C6_OnlyOwningDoctorUpdates == [][C6_Step]_vars

\* a doctor asked to update an appointment that exists under another
\* doctor_id, and got the 404
C6_NotOwned ==
    /\ last.op = "update"
    /\ last.code = 404
    /\ last.path \in 1..Len(appts)
    /\ users[last.caller].role = "doctor"

\* a date written YYYY-MM-DD, digit for digit, that the calendar has
WellFormedDate(s) ==
    /\ Len(s) = 10
    /\ s[5] = "-"
    /\ s[8] = "-"
    /\ \A i \in {1, 2, 3, 4, 6, 7, 9, 10} : IsDigit(s[i])
    /\ NumVal(SubSeq(s, 1, 4)) >= 1
    /\ NumVal(SubSeq(s, 6, 7)) \in 1..12
    /\ NumVal(SubSeq(s, 9, 10)) >= 1
    /\ NumVal(SubSeq(s, 9, 10))
           <= DaysIn(NumVal(SubSeq(s, 1, 4)), NumVal(SubSeq(s, 6, 7)))

\* the listing that follows a booking shows the new appointment as pending
ListedPending(ap, auth) ==
    LET l == get_appointments(users, ap, now, auth)
    IN  /\ l.code = 200
        /\ \E k \in 1..Len(l.body) :
               l.body[k].id = Len(ap) /\ l.body[k].status = "pending"

\* C7: a booking by an authenticated patient with a well-formed YYYY-MM-DD
\* date adds exactly one appointment (patient_id the caller, status
\* pending, time unset), which the caller's next listing shows as pending;
\* a booking whose date is not a well-formed YYYY-MM-DD calendar date
\* answers the 400 of the date and adds nothing; a booking by a non-patient
\* answers 403 and adds nothing.
C7_Booking ==
    \A auth \in Auths : \A data \in AppointmentCreate :
        LET r == book_appointment(users, appts, now, auth, data)
        IN  r.caller # 0 =>
                IF users[r.caller].role # "patient"
                THEN r.code = 403 /\ r.appts = appts
                ELSE IF ~WellFormedDate(data.date)
                THEN /\ r.code = 400
                     /\ r.detail = "Invalid date format. Use YYYY-MM-DD."
                     /\ r.appts = appts
                ELSE /\ r.code = 200
                     /\ Len(r.appts) = Len(appts) + 1
                     /\ SubSeq(r.appts, 1, Len(appts)) = appts
                     /\ r.appts[Len(r.appts)].patient_id = r.caller
                     /\ r.appts[Len(r.appts)].status = "pending"
                     /\ r.appts[Len(r.appts)].time = None
                     /\ ListedPending(r.appts, auth)

\* the email is that of a stored account
Registered(us, email) == \E i \in UserIds(us) : us[i].email = email

\* C8: no two stored accounts share an email: a signup whose email is
\* registered answers 'Email already registered' and leaves the accounts
\* unchanged, and a signup with role patient and an unregistered email
\* succeeds and adds exactly one account.
C8_UniqueEmails ==
    /\ \A i, j \in UserIds(users) :
           users[i].email = users[j].email => i = j
    /\ \A user \in UserCreate :
           LET r == signup(users, user)
           IN  /\ Registered(users, user.email)
                   => /\ r.code = 400
                      /\ r.detail = "Email already registered"
                      /\ r.users = users
               /\ (~Registered(users, user.email) /\ user.role = "patient")
                   => /\ r.code = 200
                      /\ Len(r.users) = Len(users) + 1
                      /\ SubSeq(r.users, 1, Len(users)) = users
                      /\ r.users[Len(r.users)].email = user.email
                      /\ r.users[Len(r.users)].role = "patient"

\* a signup with a registered email was refused
C8_Refused ==
    /\ last.op = "signup"
    /\ last.code = 400
    /\ last.detail = "Email already registered"
    /\ Len(users) >= 2

\* the names of the model that equal 'Suraj' but for case and blanks
ConfiguredNames == {NameSuraj, NamePadded}

\* the requests that sign a doctor up
DoctorCreate == {user \in UserCreate : user.role = "doctor"}

\* C9, as claimed: a signup with role doctor whose name is not 'Suraj'
\* (trimmed, whatever the case) is refused with the doctor-name rejection
\* and stores nothing; with such a name, a fresh email and no doctor account
\* yet it succeeds.
C9_NameRejection ==
    \A user \in DoctorCreate :
        LET r == signup(users, user)
        IN  /\ user.name \notin ConfiguredNames
                => /\ r.detail = "Only doctor named 'Suraj' is allowed"
                   /\ r.users = users
            /\ (/\ user.name \in ConfiguredNames
                /\ ~Registered(users, user.email)
                /\ DoctorIdsOf(users) = {})
                => r.code = 200

\* the table without its doctor rows: what signup would read had no doctor
\* signed up yet
WithoutDoctors(us) == SelectSeq(us, LAMBDA u : u.role # "doctor")

\* C9, amended: a signup with role doctor whose name is not 'Suraj' is
\* refused with a 400 and stores nothing, the error being 'Email already
\* registered' when the email is registered, else 'Only one doctor allowed'
\* when a doctor account exists, and the doctor-name rejection only
\* otherwise; with a name that is 'Suraj' but for case and blanks, a fresh
\* email and no doctor account it succeeds.  The running service always
\* holds a doctor account, so there every signup with role doctor is
\* refused with one of the first two errors.
C9_DoctorSignup ==
    /\ \A us \in {users, WithoutDoctors(users)} : \A user \in DoctorCreate :
           LET r == signup(us, user)
           IN  /\ user.name \notin ConfiguredNames
                   => /\ r.code = 400
                      /\ r.users = us
                      /\ r.detail =
                             IF Registered(us, user.email)
                             THEN "Email already registered"
                             ELSE IF DoctorIdsOf(us) # {}
                             THEN "Only one doctor allowed"
                             ELSE "Only doctor named 'Suraj' is allowed"
               /\ (/\ user.name \in ConfiguredNames
                   /\ ~Registered(us, user.email)
                   /\ DoctorIdsOf(us) = {})
                   => /\ r.code = 200
                      /\ Len(r.users) = Len(us) + 1
                      /\ r.users[Len(r.users)].role = "doctor"
                      /\ r.users[Len(r.users)].name = user.name
    /\ running
           => \A user \in DoctorCreate :
                  /\ signup(users, user).code = 400
                  /\ signup(users, user).detail
                         \in {"Email already registered",
                              "Only one doctor allowed"}

\* a signup with role doctor and a name that is not 'Suraj' was refused
\* because a doctor exists
C9_Refused ==
    /\ last.op = "signup"
    /\ last.name \notin ConfiguredNames
    /\ last.code = 400
    /\ last.detail = "Only one doctor allowed"

\* C10: every stored account's role is 'patient' or 'doctor', and an
\* account's role never changes after it is created.
C10_RoleInSet ==
    [][/\ \A i \in UserIds(users') : users'[i].role \in {"patient", "doctor"}
       /\ \A i \in UserIds(users) :
              /\ i \in UserIds(users')
              /\ users'[i].role = users[i].role]_vars

\* a time written HH:MM or HH:MM:SS, digit for digit, that the clock has
WellFormedTime(s) ==
    /\ Len(s) \in {5, 8}
    /\ \A i \in 1..Len(s) :
           IF i \in {3, 6} THEN s[i] = ":" ELSE IsDigit(s[i])
    /\ NumVal(SubSeq(s, 1, 2)) <= 23
    /\ NumVal(SubSeq(s, 4, 5)) <= 59
    /\ Len(s) = 8 => NumVal(SubSeq(s, 7, 8)) <= 59

\* a time of two or three fields between colons, each of one or two digits:
\* an hour up to 23, a minute and (if written) a second up to 59
ParsesAsTime(s) ==
    LET f == Split(s, ":")
    IN  /\ Len(f) \in {2, 3}
        /\ \A k \in 1..Len(f) :
               /\ Len(f[k]) \in {1, 2}
               /\ AllDigits(f[k])
               /\ NumVal(f[k]) <= (IF k = 1 THEN 23 ELSE 59)

\* the listing of the caller shows appointment `id` of the table `ap` with
\* the status and the time that the table `shown` holds for it
ListedAs(ap, auth, id, shown) ==
    LET l == get_appointments(users, ap, now, auth)
    IN  /\ l.code = 200
        /\ \E k \in 1..Len(l.body) :
               /\ l.body[k].id = id
               /\ l.body[k].status = shown[id].status
               /\ l.body[k].time = TimeOut(shown[id])

\* the updates of the owning doctor, the times of `malformed` being those
\* that are refused: a refused update answers the 400 of the time, stores
\* nothing and the next listing shows the previous status and time; an
\* update without a time stores the status and keeps the time
UpdatesOfOwner(malformed) ==
    \A h \in tokens : \A id \in 1..Len(appts) :
        LET auth == <<h.token>>
            current_user == get_current_user(users, auth, now)
        IN  (/\ current_user # 0
             /\ users[current_user].role = "doctor"
             /\ appts[id].doctor_id = current_user)
                => \A upd \in AppointmentUpdate :
                       LET r == update_appointment(users, appts, now, auth,
                                                   id, upd)
                       IN  /\ upd.time \in malformed
                               => /\ r.code = 400
                                  /\ r.detail =
                                       "Invalid time format. Use HH:MM or HH:MM:SS"
                                  /\ r.appts = appts
                                  /\ ListedAs(r.appts, auth, id, appts)
                           /\ upd.time = None
                               => /\ r.code = 200
                                  /\ r.appts = [appts EXCEPT
                                                    ![id].status = upd.status]
                                  /\ r.appts[id].time = appts[id].time

\* C11, as claimed: an update by the owning doctor with a time that is
\* written neither HH:MM:SS nor HH:MM answers the 400 of the time and
\* leaves the appointment as it was, status included, which the next
\* listing shows; an update with no time changes the status and keeps the
\* stored time.
C11_MalformedTime ==
    UpdatesOfOwner({t \in Times \ {None} : ~WellFormedTime(t)})

\* C11, amended: the times that are refused are those that do not read as
\* hour:minute or hour:minute:second with fields of one or two digits (an
\* hour up to 23, a minute and a second up to 59); a field without its
\* leading zero, as in 14:30:0, is accepted.  A refused update answers the
\* 400 of the time and persists neither the status nor a time, which the
\* next listing shows; an update with no time changes the status and keeps
\* the stored time.
C11_UnparsedTime ==
    UpdatesOfOwner({t \in Times \ {None} : ~ParsesAsTime(t)})

\* the owning doctor sent a malformed time for an appointment that had been
\* accepted with a time, and was refused: the appointment is as it was
C11_Refused ==
    /\ last.op = "update"
    /\ last.code = 400
    /\ last.detail = "Invalid time format. Use HH:MM or HH:MM:SS"
    /\ last.path \in 1..Len(appts)
    /\ appts[last.path].doctor_id = last.caller
    /\ appts[last.path].status = "accepted"
    /\ appts[last.path].time # None

====
